---- MODULE Spec2Model ----
(***************************************************************************)
(* Model of mdepp/ebook-scraper: main, the three site policies             *)
(* (scrapeRoyalRoad, scrapePhrack, scrapeScribblehub), assembleEpub and    *)
(* the curl transport (rsplit, RoundTrip).                                 *)
(*                                                                         *)
(* The collector is colly's, constructed in main without colly.Async: its  *)
(* Visit is synchronous.  Visit runs the request check (which records the  *)
(* URL in the visited store shared by every clone and refuses a URL seen   *)
(* before), the allowed-domain check, the fetch, and then the OnHTML       *)
(* callbacks in registration order, each over its matches in document      *)
(* order; a Visit made inside a callback runs to completion before the     *)
(* callback continues.  The model keeps that call stack as `agenda`, the   *)
(* sequence of steps still to run, innermost first.  A callback is one     *)
(* action up to the fetch it starts; the fetch is its own action.          *)
(*                                                                         *)
(* Strings are sequences of tokens; the empty string is << >>.             *)
(***************************************************************************)
EXTENDS Integers, Sequences, FiniteSets, TLC

VARIABLES
    pc,         \* position of main: start, scrape, assemble, write, exit0, exit1
    baseURL,    \* flag.Arg(0): [malformed, host]
    collector,  \* baseCollector: [AllowedDomains] once constructed
    policy,     \* the Scraper selected from handlers
    agenda,     \* synchronous call stack of the collectors, innermost first
    visited,    \* colly's visited store, shared by clones
    fetchLog,   \* the fetches performed: [col, url, ok] -> how many times
    site,       \* pages served so far (index / chain pages): url -> page
    meta, toc, tocSet, chapters,   \* locals of the running policy
    relinked,   \* the .tissue callback has met a URL tocSet already held
    seedErr,    \* err returned by Visit(baseURL)
    book,       \* scrapedBook in main
    doc,        \* the epub under assembly
    asmErr,     \* err returned by assembleEpub
    epubCalls,  \* operations assembleEpub has invoked on the epub sink
    outFile,    \* filename written by doc.Write
    tpc,        \* position of a RoundTrip call: idle, call, returned
    curlOK,     \* exec.Command(...).Output() returned no error
    curlOut,    \* out, the bytes the subprocess wrote
    curlJSON,   \* what the JSON documents of out hold: [http_version, header]
    curlCalls,  \* how many times RoundTrip ran the subprocess
    chunks,     \* chunks in RoundTrip
    response    \* what RoundTrip returned: [kind, body, header, major, minor]

mainVars == <<pc, baseURL, collector, policy, agenda, visited, fetchLog, site,
              relinked, meta, toc, tocSet, chapters, seedErr, book, doc, asmErr, epubCalls,
              outFile>>

transportVars == <<tpc, curlOK, curlOut, curlJSON, curlCalls, chunks, response>>

vars == <<mainVars, transportVars>>

-----------------------------------------------------------------------------
(* Bounds *)

MaxPath == 2        \* pages of the seed host have paths 0..MaxPath; 0 is the seed
MaxAnchors == 2     \* anchors one selector matches on one page
MaxDetails == 1     \* anchors .details a matches on one page
MaxChapters == 3    \* chapters of a royalroad fiction: its pages have paths 0..MaxChapters
MaxOut == 9         \* bytes the subprocess writes
MaxVersion == 3     \* characters of the http_version the subprocess reports
MaxHeaders == 2     \* field names of the header mapping the subprocess reports

-----------------------------------------------------------------------------
(* URLs, strings *)

EmptyString == << >>

OtherHost == "elsewhere.example"

URL(h, n) == [host |-> h, path |-> n]

EmptyURL == URL("", 0)

SeedURL == URL(baseURL.host, 0)

\* Paths of the pages of the seed host.
Paths == IF baseURL.host = "www.royalroad.com" THEN 0..MaxChapters ELSE 0..MaxPath

\* Every link a page of the site can carry: pages of the seed host and one
\* page of another host.
URLs == {URL(baseURL.host, n) : n \in Paths} \cup {URL(OtherHost, 0)}

SeqUpTo(S, n) == UNION {[1..k -> S] : k \in 0..n}

Range(s) == {s[i] : i \in 1..Len(s)}

NoDup(s) == \A i, j \in 1..Len(s) : s[i] = s[j] => i = j

-----------------------------------------------------------------------------
(* Data model *)

Chapter(title, content) == [Title |-> title, Content |-> content]

\* Go's zero value of Chapter, what a map read of a missing key yields.
ZeroChapter == Chapter(EmptyString, EmptyString)

Metadata(title, author, cover, description) ==
    [Title |-> title, Author |-> author, CoverURL |-> cover, Description |-> description]

ZeroMetadata == Metadata(EmptyString, EmptyString, EmptyString, EmptyString)

NoChapters == [u \in {} |-> ZeroChapter]

ScrapedBook(m, t, c) == [meta |-> m, toc |-> t, chapters |-> c]

ZeroBook == ScrapedBook(ZeroMetadata, << >>, NoChapters)

\* chapters[url] = ch
MapPut(m, k, v) == [x \in DOMAIN m \cup {k} |-> IF x = k THEN v ELSE m[x]]

\* book.chapters[tocEntry.URL]
MapGet(m, k) == IF k \in DOMAIN m THEN m[k] ELSE ZeroChapter

\* Text of the page at u, as the selectors return it.
TitleOf(u) == <<"title", u.host, ToString(u.path)>>

HTMLOf(u) == <<"html", u.host, ToString(u.path)>>

-----------------------------------------------------------------------------
(* String operations used by the program *)

\* strings.Contains(s, tok)
Contains(s, tok) == \E i \in 1..Len(s) : s[i] = tok

\* strings.ReplaceAll(s, old, new)
ReplaceAll(s, old, new) == [i \in 1..Len(s) |-> IF s[i] = old THEN new ELSE s[i]]

\* strings.ToLower(s)
ToLower(s) ==
    [i \in 1..Len(s) |->
        CASE s[i] = "Phrack" -> "phrack"
          [] s[i] = "Magazine" -> "magazine"
          [] s[i] = "Fic" -> "fic"
          [] s[i] = "Title" -> "title"
          [] OTHER -> s[i]]

\* e.Request.AbsoluteURL(src) of a src attribute: an absent attribute ("")
\* resolves to the URL of the page itself.
AbsoluteURL(u, src) ==
    IF src = EmptyString THEN <<u.host, "/", ToString(u.path)>> ELSE <<u.host>> \o src

-----------------------------------------------------------------------------
(* main: policy registry *)

handlers ==
    [h \in {"www.royalroad.com", "phrack.org", "www.scribblehub.com"} |->
        CASE h = "www.royalroad.com" -> "scrapeRoyalRoad"
          [] h = "phrack.org" -> "scrapePhrack"
          [] h = "www.scribblehub.com" -> "scrapeScribblehub"]

\* Mutant: a host with no handler falls back to a default handler.
HandlerLookup_default(host) ==
    IF host \in {"www.royalroad.com", "phrack.org", "www.scribblehub.com"}
    THEN [handler |-> CASE host = "www.royalroad.com" -> "scrapeRoyalRoad"
                        [] host = "phrack.org" -> "scrapePhrack"
                        [] OTHER -> "scrapeScribblehub",
          ok |-> TRUE]
    ELSE [handler |-> "scrapePhrack", ok |-> TRUE]

\* handler, ok := handlers[parsedURL.Host]
HandlerLookup(host) ==
    IF host \in DOMAIN handlers
    THEN [handler |-> handlers[host], ok |-> TRUE]
    ELSE [handler |-> "nil", ok |-> FALSE]

\* The seeds main is run with: a URL url.Parse rejects, or a URL of a host.
SeedInputs ==
    {[malformed |-> TRUE, host |-> ""]}
    \cup {[malformed |-> FALSE, host |-> h] : h \in DOMAIN handlers \cup {"example.org"}}

\* Mutant: the error is reported and main goes on.
AfterScrape_continue(err) == "assemble"

\* if err != nil { logger.Fatal(err) } after handler(...) / assembleEpub(...)
AfterScrape(err) == IF err THEN "exit1" ELSE "assemble"

AfterAssemble(err) == IF err THEN "exit1" ELSE "write"

-----------------------------------------------------------------------------
(* The collector *)

NoCollector == [constructed |-> FALSE, AllowedDomains |-> {}, Parallelism |-> 0]

\* colly.LimitRule{DomainGlob: "*", Parallelism: 5}
Parallelism == 5

\* Mutant: the limit rule is set with no room for a request.
NewCollector_nolimit(host) ==
    [constructed |-> TRUE, AllowedDomains |-> {host}, Parallelism |-> 0]

\* colly.NewCollector(colly.AllowedDomains(parsedURL.Host),
\*     func(col) { col.Limit(&colly.LimitRule{DomainGlob: "*", Parallelism: 5}) })
\* Clone() copies the allowed domains and shares the backend with its limit rule.
NewCollector(host) ==
    [constructed |-> TRUE, AllowedDomains |-> {host}, Parallelism |-> Parallelism]

Task(op, col, url, left) == [op |-> op, col |-> col, url |-> url, left |-> left]

\* Mutant: the collector allows a URL to be visited again.
AlreadyVisited_revisit(store, u) == FALSE

\* The visited store refuses a URL it has recorded (no AllowURLRevisit).
AlreadyVisited(store, u) == u \in store

\* Mutant: the collector has no allowed-domain check.
VisitOutcome_anyhost(c, store, u) ==
    IF u = EmptyURL THEN "ErrMissingURL"
    ELSE IF AlreadyVisited(store, u) THEN "ErrAlreadyVisited"
    ELSE "fetch"

\* collector.Visit(u) up to the fetch: request check, then domain check.
VisitOutcome(c, store, u) ==
    IF u = EmptyURL THEN "ErrMissingURL"
    ELSE IF AlreadyVisited(store, u) THEN "ErrAlreadyVisited"
    ELSE IF u.host \notin c.AllowedDomains THEN "ErrForbiddenDomain"
    ELSE "fetch"

\* Mutant: the request check does not record the URL.
VisitedAfter_unrecorded(c, store, u) == store

\* The request check records the URL before the domain check runs.
VisitedAfter(c, store, u) ==
    IF VisitOutcome(c, store, u) \in {"ErrForbiddenDomain", "fetch"}
    THEN store \cup {u} ELSE store

\* What the Visit leaves to run: the fetch, or nothing when it returned an error.
VisitPush(c, store, col, u) ==
    IF VisitOutcome(c, store, u) = "fetch" THEN <<Task("fetch", col, u, 0)>> ELSE << >>

NoFetches == [r \in {} |-> 0]

\* The log with one more fetch r.
Logged(log, r) ==
    [x \in DOMAIN log \cup {r} |->
        IF x = r THEN (IF r \in DOMAIN log THEN log[r] + 1 ELSE 1) ELSE log[x]]

-----------------------------------------------------------------------------
(* Pages *)

Page(anchors, tissue, details, first, chapter, next, cover) ==
    [anchors |-> anchors, tissue |-> tissue, details |-> details, first |-> first,
     chapter |-> chapter, next |-> next, cover |-> cover]

\* src of the cover image of a royalroad index: absent, the placeholder, a cover
RoyalRoadCovers == {EmptyString, <<"/dist", "/nocover", ".png">>, <<"/covers-full", "/1.jpg">>}

\* src of .fic_image img on scribblehub: absent or present
ScribblehubCovers == {EmptyString, <<"/cover.jpg">>}

\* The links the run has met so far: visited, or carried by a page served.
Known ==
    visited \cup UNION {{site[u].first, site[u].next} \cup Range(site[u].anchors) :
                            u \in DOMAIN site}

\* Pages of the seed host are interchangeable names, so a link that names a
\* page not met before names the one of least path among them.
Introduces(u, known) ==
    \/ u = EmptyURL
    \/ u \in known
    \/ u.host # baseURL.host
    \/ \A w \in URLs \ known : w.host = baseURL.host => u.path <= w.path

InOrder(links, known) ==
    \A i \in 1..Len(links) :
        Introduces(links[i], known \cup {links[j] : j \in 1..(i - 1)})

\* The pages a fetch of u by collector col can return under policy p.
Pages(p, col, u) ==
    CASE p = "scrapeRoyalRoad" /\ col = "mainCollector" ->
            {Page(a, 0, 0, EmptyURL, FALSE, EmptyURL, c) :
                a \in {x \in SeqUpTo(URLs, MaxChapters) : InOrder(x, Known)},
                c \in RoyalRoadCovers}
      [] p = "scrapeRoyalRoad" /\ col = "chapterCollector" ->
            {Page(<< >>, 0, 0, EmptyURL, TRUE, EmptyURL, EmptyString)}
      [] p = "scrapePhrack" ->
            {Page(<< >>, t, d, EmptyURL, TRUE, EmptyURL, EmptyString) :
                t \in 0..MaxAnchors, d \in 0..MaxDetails}
      [] p = "scrapeScribblehub" ->
            {pg \in {Page(<< >>, 0, 0, f, ch, n, EmptyString) :
                        f \in URLs \cup {EmptyURL}, ch \in BOOLEAN,
                        n \in URLs \cup {EmptyURL}} :
                InOrder(<<pg.first, pg.next>>, Known)}

\* The OnHTML callbacks of collector col that match the page, in registration
\* order, each over its matches in document order.
Callbacks(p, col, u, page) ==
    CASE p = "scrapeRoyalRoad" /\ col = "mainCollector" ->
            <<Task("rrHtml", col, u, 0)>>
            \o [i \in 1..Len(page.anchors) |-> Task("rrAnchor", col, page.anchors[i], 0)]
      [] p = "scrapeRoyalRoad" /\ col = "chapterCollector" ->
            <<Task("rrChapter", col, u, 0)>>
      [] p = "scrapePhrack" ->
            (IF page.tissue > 0 THEN <<Task("tissue", col, u, page.tissue)>> ELSE << >>)
            \o (IF page.details > 0 THEN <<Task("details", col, u, page.details)>> ELSE << >>)
            \o <<Task("body", col, u, 0)>>
      [] p = "scrapeScribblehub" ->
            <<Task("shBody", col, u, 0)>>

\* The collector the policy visits the seed with.
SeedCollector(p) == IF p = "scrapeRoyalRoad" THEN "mainCollector" ELSE "baseCollector"

\* Pages whose links the model records in `site`.
Recorded(p, col) == p = "scrapeScribblehub" \/ (p = "scrapeRoyalRoad" /\ col = "mainCollector")


-----------------------------------------------------------------------------
(* The epub sink *)

Epub(made, title, author, cover, description, sections) ==
    [made |-> made, title |-> title, author |-> author, cover |-> cover,
     description |-> description, sections |-> sections]

\* the nil *epub.Epub
NilEpub == Epub(FALSE, EmptyString, EmptyString, EmptyString, EmptyString, << >>)

\* doc.AddSection(chapter.Content, chapter.Title, "", "")
Section(chapter) == [body |-> chapter.Content, title |-> chapter.Title]

-----------------------------------------------------------------------------
(* Initial state *)

\* http.Header: field name -> values
NoHeader == [k \in {} |-> << >>]

\* What RoundTrip returns: a *http.Response (body, header, ProtoMajor,
\* ProtoMinor), an error, or nothing when it panicked.
Response(kind, body, header, major, minor) ==
    [kind |-> kind, body |-> body, header |-> header, major |-> major, minor |-> minor]

NoResponse(kind) == Response(kind, << >>, NoHeader, 0, 0)

\* The JSON documents of an output that holds none.
NoJSON == [http_version |-> << >>, header |-> NoHeader]

\* No RoundTrip call is under way.
TransportIdle ==
    /\ tpc = "idle"
    /\ curlOK = TRUE
    /\ curlOut = << >>
    /\ curlJSON = NoJSON
    /\ curlCalls = 0
    /\ chunks = << >>
    /\ response = NoResponse("none")

Init ==
    /\ TransportIdle
    /\ pc = "start"
    /\ baseURL \in SeedInputs
    /\ collector = NoCollector
    /\ policy = "nil"
    /\ agenda = << >>
    /\ visited = {}
    /\ fetchLog = NoFetches
    /\ site = [u \in {} |-> 0]
    /\ meta = ZeroMetadata
    /\ toc = << >>
    /\ tocSet = {}
    /\ relinked = FALSE
    /\ chapters = NoChapters
    /\ seedErr = FALSE
    /\ book = ZeroBook
    /\ doc = NilEpub
    /\ asmErr = FALSE
    /\ epubCalls = {}
    /\ outFile = EmptyString

policyVars == <<meta, toc, tocSet, chapters>>

afterVars == <<book, doc, asmErr, epubCalls, outFile>>

-----------------------------------------------------------------------------
(* main up to the policy's first fetch *)

\* url.Parse failed, or no handler for the host
ConfigError(input) == input.malformed \/ ~HandlerLookup(input.host).ok

\* logger.Fatal before the collector exists
MainFatalConfig ==
    /\ UNCHANGED <<transportVars, relinked>>
    /\ pc = "start"
    /\ ConfigError(baseURL)
    /\ pc' = "exit1"
    /\ UNCHANGED <<baseURL, collector, policy, agenda, visited, fetchLog, site,
                   policyVars, seedErr, afterVars>>

\* meta as the policy declares it
InitialMeta(p) ==
    IF p = "scrapePhrack"
    THEN Metadata(<<"Phrack", " ", "Magazine">>, EmptyString,
                  <<"http://phrack.org/images/phrack-logo.jpg">>, EmptyString)
    ELSE ZeroMetadata

\* NewCollector, handler(baseCollector, baseURL) up to the fetch of the seed
MainScrape ==
    /\ UNCHANGED <<transportVars, relinked>>
    /\ pc = "start"
    /\ ~ConfigError(baseURL)
    /\ LET p == HandlerLookup(baseURL.host).handler
           c == NewCollector(baseURL.host)
       IN /\ collector' = c
          /\ policy' = p
          /\ meta' = InitialMeta(p)
          /\ visited' = VisitedAfter(c, visited, SeedURL)
          /\ agenda' = VisitPush(c, visited, SeedCollector(p), SeedURL)
          /\ seedErr' = (VisitOutcome(c, visited, SeedURL) # "fetch")
    /\ pc' = "scrape"
    /\ UNCHANGED <<baseURL, fetchLog, site, toc, tocSet, chapters, afterVars>>

-----------------------------------------------------------------------------
(* The fetch: the one suspension point *)

Running(op) == pc = "scrape" /\ agenda # << >> /\ Head(agenda).op = op

\* Mutant: the error of any fetch becomes the error the policy returns.
FetchError_any(err, log) == TRUE

\* err of Visit(baseURL) after a fetch failed: the first fetch is the one
\* Visit(baseURL) returns the error of; the error a Visit made inside a
\* callback returns is dropped by the callback.
FetchError(err, log) == err \/ log = NoFetches

Fetch ==
    /\ UNCHANGED <<transportVars, relinked>>
    /\ Running("fetch")
    /\ LET t == Head(agenda) IN
       \E ok \in BOOLEAN :
          /\ fetchLog' = Logged(fetchLog, [col |-> t.col, url |-> t.url, ok |-> ok])
          /\ IF ok
             THEN \E page \in Pages(policy, t.col, t.url) :
                     /\ agenda' = Callbacks(policy, t.col, t.url, page) \o Tail(agenda)
                     /\ site' = IF Recorded(policy, t.col)
                                THEN [u \in DOMAIN site \cup {t.url} |->
                                         IF u = t.url THEN page ELSE site[u]]
                                ELSE site
                     /\ UNCHANGED seedErr
             ELSE /\ agenda' = Tail(agenda)
                  /\ seedErr' = FetchError(seedErr, fetchLog)
                  /\ UNCHANGED site
    /\ UNCHANGED <<pc, baseURL, collector, policy, visited, policyVars, afterVars>>

-----------------------------------------------------------------------------
(* scrapeRoyalRoad *)

TOCEntry(u) == [URL |-> u]

\* coverURL of the index page: "" for the placeholder, covers-large otherwise
RoyalRoadCoverURL(u, src) ==
    LET coverURL == AbsoluteURL(u, src) IN
    IF Contains(coverURL, "/nocover") THEN EmptyString
    ELSE ReplaceAll(coverURL, "/covers-full", "/covers-large")

\* mainCollector.OnHTML("html")
RoyalRoadHtml ==
    /\ UNCHANGED <<transportVars, relinked>>
    /\ Running("rrHtml")
    /\ LET u == Head(agenda).url IN
       meta' = Metadata(<<"Fic", " ", "Title">>, <<"author">>,
                        RoyalRoadCoverURL(u, site[u].cover), <<"description">>)
    /\ agenda' = Tail(agenda)
    /\ UNCHANGED <<pc, baseURL, collector, policy, visited, fetchLog, site,
                   toc, tocSet, chapters, seedErr, afterVars>>

\* Mutant: the entry is put in front of the sequence.
TocAppend_prepend(t, u) == <<TOCEntry(u)>> \o t

\* Mutant: the anchor callback appends nothing, the entry being left to the
\* callback of the chapter page.
TocAppend_deferred(t, u) == t

\* toc = append(toc, TOCEntry{URL: chapterURL})
TocAppend(t, u) == Append(t, TOCEntry(u))

\* mainCollector.OnHTML("#chapters"): one anchor of the ForEach
RoyalRoadAnchor ==
    /\ UNCHANGED <<transportVars, relinked>>
    /\ Running("rrAnchor")
    /\ LET chapterURL == Head(agenda).url IN
       /\ toc' = TocAppend(toc, chapterURL)
       /\ visited' = VisitedAfter(collector, visited, chapterURL)
       /\ agenda' = VisitPush(collector, visited, "chapterCollector", chapterURL)
                    \o Tail(agenda)
    /\ UNCHANGED <<pc, baseURL, collector, policy, fetchLog, site, meta, tocSet,
                   chapters, seedErr, afterVars>>

RoyalRoadChapterOf(u) ==
    Chapter(TitleOf(u), <<"<h2>">> \o TitleOf(u) \o <<"</h2>">> \o HTMLOf(u))

\* chapterCollector.OnHTML("html")
RoyalRoadChapter ==
    /\ UNCHANGED <<transportVars, relinked>>
    /\ Running("rrChapter")
    /\ LET chapterURL == Head(agenda).url IN
       chapters' = MapPut(chapters, chapterURL, RoyalRoadChapterOf(chapterURL))
    /\ agenda' = Tail(agenda)
    /\ UNCHANGED <<pc, baseURL, collector, policy, visited, fetchLog, site, meta,
                   toc, tocSet, seedErr, afterVars>>

-----------------------------------------------------------------------------
(* scrapePhrack *)

\* The callback's remaining matches on the page, after this one.
NextMatch(t) == IF t.left > 1 THEN <<[t EXCEPT !.left = t.left - 1]>> ELSE << >>

\* Mutant: the entry is appended without consulting tocSet.
TissueToc_nodedup(t, set, childURL) == TocAppend(t, childURL)

\* if !tocSet.Contains(childURL) { toc = append(...); tocSet.Add(childURL) }
TissueToc(t, set, childURL) == IF childURL \notin set THEN TocAppend(t, childURL) ELSE t

\* baseCollector.OnHTML(".tissue a"): one matching anchor
PhrackTissue ==
    /\ UNCHANGED transportVars
    /\ Running("tissue")
    /\ \E childURL \in {w \in URLs : Introduces(w, Known)} :
          /\ toc' = TissueToc(toc, tocSet, childURL)
          /\ tocSet' = tocSet \cup {childURL}
          /\ relinked' = (relinked \/ childURL \in tocSet)
          /\ visited' = VisitedAfter(collector, visited, childURL)
          /\ agenda' = VisitPush(collector, visited, "baseCollector", childURL)
                       \o NextMatch(Head(agenda)) \o Tail(agenda)
    /\ UNCHANGED <<pc, baseURL, collector, policy, fetchLog, site, meta, chapters,
                   seedErr, afterVars>>

\* baseCollector.OnHTML(".details a"): one matching anchor
PhrackDetails ==
    /\ UNCHANGED <<transportVars, relinked>>
    /\ Running("details")
    /\ \E childURL \in {w \in URLs : Introduces(w, Known)} :
          /\ visited' = VisitedAfter(collector, visited, childURL)
          /\ agenda' = VisitPush(collector, visited, "baseCollector", childURL)
                       \o NextMatch(Head(agenda)) \o Tail(agenda)
    /\ UNCHANGED <<pc, baseURL, collector, policy, fetchLog, site, policyVars,
                   seedErr, afterVars>>

PhrackChapterOf(u) == Chapter(TitleOf(u), <<"<pre>">> \o HTMLOf(u) \o <<"</pre>">>)

\* baseCollector.OnHTML("body")
PhrackBody ==
    /\ UNCHANGED <<transportVars, relinked>>
    /\ Running("body")
    /\ LET chapterURL == Head(agenda).url IN
       chapters' = MapPut(chapters, chapterURL, PhrackChapterOf(chapterURL))
    /\ agenda' = Tail(agenda)
    /\ UNCHANGED <<pc, baseURL, collector, policy, visited, fetchLog, site, meta,
                   toc, tocSet, seedErr, afterVars>>


-----------------------------------------------------------------------------
(* scrapeScribblehub *)

ScribblehubChapterOf(u) == Chapter(TitleOf(u), HTMLOf(u))

\* meta = Metadata{...} when the page carries a first-chapter link; cover is
\* the src of .fic_image img on the page
ScribblehubMeta(m, page, cover) ==
    IF page.first # EmptyURL
    THEN Metadata(<<"Fic", " ", "Title">>, <<"author">>, cover, <<"description">>)
    ELSE m

\* if link != "" { baseCollector.Visit(link) }: the store after it
GuardedVisited(c, store, link) ==
    IF link # EmptyURL THEN VisitedAfter(c, store, link) ELSE store

\* if link != "" { baseCollector.Visit(link) }: the fetch it starts
GuardedPush(c, store, link) ==
    IF link # EmptyURL THEN VisitPush(c, store, "baseCollector", link) ELSE << >>

\* Mutant: the entry is appended whatever the shape of the page.
ChainToc_unguarded(t, u, page) == TocAppend(t, u)

\* if chapterContent != "" { toc = append(...); chapters[chapterURL] = ... }
ChainToc(t, u, page) == IF page.chapter THEN TocAppend(t, u) ELSE t

\* Mutant: the insert is placed after the visit of the next link, so it has
\* not happened when that visit's fetch starts.
ChainChapters_afterNext(m, u, page) ==
    IF page.chapter /\ page.next = EmptyURL THEN MapPut(m, u, ScribblehubChapterOf(u)) ELSE m

ChainChapters(m, u, page) ==
    IF page.chapter THEN MapPut(m, u, ScribblehubChapterOf(u)) ELSE m

\* baseCollector.OnHTML("body") from the chapter check on (after the visit of
\* the first-chapter link, if any, has returned), with the store as it is then.
ScribblehubTail(u, store) ==
    LET page == site[u] IN
    /\ toc' = ChainToc(toc, u, page)
    /\ chapters' = ChainChapters(chapters, u, page)
    /\ visited' = GuardedVisited(collector, store, page.next)
    /\ agenda' = GuardedPush(collector, store, page.next) \o Tail(agenda)

\* baseCollector.OnHTML("body"): from its start to the first fetch it starts,
\* or to its end
ScribblehubBody ==
    /\ UNCHANGED <<transportVars, relinked>>
    /\ Running("shBody")
    /\ LET u == Head(agenda).url
           page == site[u]
           push == GuardedPush(collector, visited, page.first)
       IN /\ \E cover \in ScribblehubCovers : meta' = ScribblehubMeta(meta, page, cover)
          /\ IF push # << >>
             THEN /\ visited' = GuardedVisited(collector, visited, page.first)
                  /\ agenda' = push \o <<Task("shRest", "baseCollector", u, 0)>>
                               \o Tail(agenda)
                  /\ UNCHANGED <<toc, chapters>>
             ELSE ScribblehubTail(u, GuardedVisited(collector, visited, page.first))
    /\ UNCHANGED <<pc, baseURL, collector, policy, fetchLog, site, tocSet, seedErr,
                   afterVars>>

\* baseCollector.OnHTML("body"): resumed after the visit of the first chapter
ScribblehubRest ==
    /\ UNCHANGED <<transportVars, relinked>>
    /\ Running("shRest")
    /\ ScribblehubTail(Head(agenda).url, visited)
    /\ UNCHANGED <<pc, baseURL, collector, policy, fetchLog, site, meta, tocSet,
                   seedErr, afterVars>>

-----------------------------------------------------------------------------
(* main after the policy *)

\* return ScrapedBook{meta, toc, chapters}, nil / return ScrapedBook{}, err;
\* then main's check of err
PolicyReturn ==
    /\ UNCHANGED <<transportVars, relinked>>
    /\ pc = "scrape"
    /\ agenda = << >>
    /\ book' = IF seedErr THEN ZeroBook ELSE ScrapedBook(meta, toc, chapters)
    /\ pc' = AfterScrape(seedErr)
    /\ UNCHANGED <<baseURL, collector, policy, agenda, visited, fetchLog, site,
                   policyVars, seedErr, doc, asmErr, epubCalls, outFile>>

\* Mutant: the cover is added whatever the cover URL.
HasCover_always(b) == TRUE

\* if book.meta.CoverURL != "" { ... }
HasCover(b) == b.meta.CoverURL # EmptyString

\* Mutant: a chapter of the mapping that the TOC does not list gets a section too.
Sections_unlisted(b) ==
    LET unlisted == {u \in DOMAIN b.chapters : \A i \in 1..Len(b.toc) : b.toc[i].URL # u}
    IN [i \in 1..Len(b.toc) |-> Section(MapGet(b.chapters, b.toc[i].URL))]
       \o (IF unlisted = {} THEN << >>
           ELSE <<Section(b.chapters[CHOOSE u \in unlisted : TRUE])>>)

\* for _, tocEntry := range book.toc { doc.AddSection(book.chapters[tocEntry.URL]...) }
Sections(b) == [i \in 1..Len(b.toc) |-> Section(MapGet(b.chapters, b.toc[i].URL))]

\* assembleEpub: the sink operations it invokes; imageOK and cssOK are the
\* results of doc.AddImage and doc.AddCSS
AssembleCalls(b, imageOK, cssOK) ==
    {"NewEpub", "SetAuthor"}
    \cup (IF HasCover(b) THEN {"AddImage"} ELSE {})
    \cup (IF HasCover(b) /\ imageOK THEN {"AddCSS"} ELSE {})
    \cup (IF HasCover(b) /\ imageOK /\ cssOK THEN {"SetCover", "SetDescription"} ELSE {})
    \cup (IF (HasCover(b) => imageOK /\ cssOK) /\ b.toc # << >> THEN {"AddSection"} ELSE {})

\* assembleEpub: its error result
AssembleErr(b, imageOK, cssOK) == HasCover(b) /\ ~(imageOK /\ cssOK)

\* assembleEpub: the document it returns
AssembleDoc(b, imageOK, cssOK) ==
    IF AssembleErr(b, imageOK, cssOK) THEN NilEpub
    ELSE Epub(TRUE, b.meta.Title, b.meta.Author,
              IF HasCover(b) THEN b.meta.CoverURL ELSE EmptyString,
              IF HasCover(b) THEN b.meta.Description ELSE EmptyString,
              Sections(b))

\* doc, err := assembleEpub(scrapedBook); then main's check of err
AssembleEpub ==
    /\ UNCHANGED <<transportVars, relinked>>
    /\ pc = "assemble"
    /\ \E imageOK, cssOK \in BOOLEAN :
          /\ doc' = AssembleDoc(book, imageOK, cssOK)
          /\ asmErr' = AssembleErr(book, imageOK, cssOK)
          /\ epubCalls' = AssembleCalls(book, imageOK, cssOK)
          /\ pc' = AfterAssemble(AssembleErr(book, imageOK, cssOK))
    /\ UNCHANGED <<baseURL, collector, policy, agenda, visited, fetchLog, site,
                   policyVars, seedErr, book, outFile>>

\* strings.ToLower(strings.ReplaceAll(doc.Title(), " ", "-")) + ".epub"
Filename(title) == ToLower(ReplaceAll(title, " ", "-")) \o <<".epub">>

\* doc.Write(filename)
WriteFile ==
    /\ UNCHANGED <<transportVars, relinked>>
    /\ pc = "write"
    /\ outFile' = Filename(doc.title)
    /\ pc' = "exit0"
    /\ UNCHANGED <<baseURL, collector, policy, agenda, visited, fetchLog, site,
                   policyVars, seedErr, book, doc, asmErr, epubCalls>>

-----------------------------------------------------------------------------
(* CurlTransport *)

NL == "\n"

\* const DELIMITER = "\n\n\n"
DELIMITER == <<NL, NL, NL>>

\* Bytes of the subprocess output: a newline, a JSON document, any other byte.
Bytes == {NL, "j", "x"}

\* bytes.Index(s, sep): position of the first occurrence of sep, 0 if none
Index(s, sep) ==
    LET hits == {i \in 1..(Len(s) - Len(sep) + 1) : SubSeq(s, i, i + Len(sep) - 1) = sep}
    IN IF hits = {} THEN 0 ELSE CHOOSE i \in hits : \A k \in hits : i <= k

\* bytes.Split(s, sep): the pieces between the occurrences of sep, found
\* scanning from the left
RECURSIVE Split(_, _)
Split(s, sep) ==
    LET i == Index(s, sep) IN
    IF i = 0 THEN <<s>>
    ELSE <<SubSeq(s, 1, i - 1)>> \o Split(SubSeq(s, i + Len(sep), Len(s)), sep)

\* bytes.Join(parts, sep)
RECURSIVE Join(_, _)
Join(parts, sep) ==
    IF parts = << >> THEN << >>
    ELSE IF Len(parts) = 1 THEN parts[1]
    ELSE parts[1] \o sep \o Join(Tail(parts), sep)

rsplit(s, sep, n) ==
    LET parts == Split(s, sep) IN
    IF Len(parts) < n THEN parts
    ELSE <<Join(SubSeq(parts, 1, Len(parts) - n + 1), sep)>>
         \o SubSeq(parts, Len(parts) - n + 2, Len(parts))

\* json.Unmarshal accepts one document with white space around it.
Unmarshals(chunk) == SelectSeq(chunk, LAMBDA b : b # NL) = <<"j">>

\* strings.Cut(s, sep) for a one-character sep
Cut(s, sep) ==
    LET hits == {i \in 1..Len(s) : s[i] = sep} IN
    IF hits = {} THEN [before |-> s, after |-> << >>, found |-> FALSE]
    ELSE LET i == CHOOSE k \in hits : \A m \in hits : k <= m
         IN [before |-> SubSeq(s, 1, i - 1), after |-> SubSeq(s, i + 1, Len(s)),
             found |-> TRUE]

Digits == {"0", "1", "2"}

DigitValue(c) == CASE c = "0" -> 0 [] c = "1" -> 1 [] c = "2" -> 2

\* value of a string of digits
RECURSIVE Decimal(_)
Decimal(s) ==
    IF s = << >> THEN 0
    ELSE 10 * Decimal(SubSeq(s, 1, Len(s) - 1)) + DigitValue(s[Len(s)])

Signs == {"+", "-"}

\* A run of twenty digits 9, as one token: a number beyond the range of int.
BigDigits == "99999999999999999999"

\* Mutant: the empty string parses as 0.
Atoi_emptyzero(s) ==
    LET signed == s # << >> /\ s[1] \in Signs
        digits == IF signed THEN Tail(s) ELSE s
    IN IF s = << >> THEN [n |-> 0, err |-> FALSE]
       ELSE IF digits = << >> \/ \E i \in 1..Len(digits) : digits[i] \notin Digits \cup {BigDigits}
       THEN [n |-> 0, err |-> TRUE]
       ELSE IF \E i \in 1..Len(digits) : digits[i] = BigDigits
       THEN [n |-> 0, err |-> TRUE]
       ELSE [n |-> IF signed /\ s[1] = "-" THEN 0 - Decimal(digits) ELSE Decimal(digits),
             err |-> FALSE]

\* strconv.Atoi(s): an optional sign, then one or more digits (else
\* ErrSyntax), of a value within the range of int (else ErrRange)
Atoi(s) ==
    LET signed == s # << >> /\ s[1] \in Signs
        digits == IF signed THEN Tail(s) ELSE s
    IN IF digits = << >> \/ \E i \in 1..Len(digits) : digits[i] \notin Digits \cup {BigDigits}
       THEN [n |-> 0, err |-> TRUE]
       ELSE IF \E i \in 1..Len(digits) : digits[i] = BigDigits
       THEN [n |-> 0, err |-> TRUE]
       ELSE [n |-> IF signed /\ s[1] = "-" THEN 0 - Decimal(digits) ELSE Decimal(digits),
             err |-> FALSE]

\* Mutant: a component that is no number counts as 0.
parseHTTPVersion_noerr(versionString) ==
    LET c == Cut(versionString, ".")
        major == IF c.found THEN c.before ELSE versionString
        minor == IF c.found THEN c.after ELSE <<"0">>
    IN [major |-> Atoi(major).n, minor |-> Atoi(minor).n, err |-> FALSE]

parseHTTPVersion(versionString) ==
    LET c == Cut(versionString, ".")
        major == IF c.found THEN c.before ELSE versionString
        minor == IF c.found THEN c.after ELSE <<"0">>
    IN IF Atoi(major).err \/ Atoi(minor).err
       THEN [major |-> 0, minor |-> 0, err |-> TRUE]
       ELSE [major |-> Atoi(major).n, minor |-> Atoi(minor).n, err |-> FALSE]

\* Characters of header field names.
UpperOf(c) == CASE c = "a" -> "A" [] c = "b" -> "B" [] OTHER -> c

LowerOf(c) == CASE c = "A" -> "a" [] c = "B" -> "b" [] OTHER -> c

\* textproto.CanonicalMIMEHeaderKey: the first letter and every letter after
\* a hyphen in upper case, the others in lower case
CanonicalMIMEHeaderKey(k) ==
    [i \in 1..Len(k) |-> IF i = 1 \/ k[i - 1] = "-" THEN UpperOf(k[i]) ELSE LowerOf(k[i])]

\* header.Del(key): delete(h, CanonicalMIMEHeaderKey(key))
HeaderDel(h, key) == [k \in DOMAIN h \ {CanonicalMIMEHeaderKey(key)} |-> h[k]]

\* header.Add(key, value): h[canonical] = append(h[canonical], value)
HeaderAdd(h, key, value) ==
    LET c == CanonicalMIMEHeaderKey(key) IN
    [k \in DOMAIN h \cup {c} |->
        IF k = c THEN (IF c \in DOMAIN h THEN h[c] ELSE << >>) \o <<value>> ELSE h[k]]

RECURSIVE HeaderAddAll(_, _, _)
HeaderAddAll(h, key, values) ==
    IF values = << >> THEN h
    ELSE HeaderAddAll(HeaderAdd(h, key, Head(values)), key, Tail(values))

\* for key, values := range header { header.Del(key); header.Add(key, value)... }
\* over the keys in the order the range produces them.  An entry the loop
\* itself created, if the range produces it, is deleted and added back as it was.
RECURSIVE Canonicalize(_, _)
Canonicalize(h, order) ==
    IF order = << >> THEN h
    ELSE LET key == Head(order)
             values == h[key]
         IN Canonicalize(HeaderAddAll(HeaderDel(h, key), key, values), Tail(order))

\* The orders a range over the mapping can produce its keys in.
RangeOrders(h) ==
    {o \in [1..Cardinality(DOMAIN h) -> DOMAIN h] : \A i, j \in DOMAIN o : o[i] = o[j] => i = j}

\* RoundTrip from the subprocess result to its return
RoundTripResult(ok, out, json, order) ==
    LET cs == rsplit(out, DELIMITER, 3)
        version == parseHTTPVersion(json.http_version)
    IN
    IF ~ok THEN NoResponse("error")
    \* chunks[1], chunks[2] of a shorter slice: index out of range
    ELSE IF Len(cs) < 3 THEN NoResponse("panic")
    ELSE IF ~Unmarshals(cs[2]) \/ ~Unmarshals(cs[3]) THEN NoResponse("error")
    ELSE IF version.err THEN NoResponse("error")
    ELSE Response("response", cs[1], Canonicalize(json.header, order),
                  version.major, version.minor)

\* The subprocess output holds the two JSON documents RoundTrip decodes.
Decodes(out) ==
    LET cs == rsplit(out, DELIMITER, 3) IN
    Len(cs) >= 3 /\ Unmarshals(cs[2]) /\ Unmarshals(cs[3])

VersionChars == Digits \cup {".", "x", "-", BigDigits}

Versions == SeqUpTo(VersionChars, MaxVersion)

HeaderNames == {<<"a">>, <<"A">>, <<"a", "-", "b">>, <<"a", "-", "B">>, <<"A", "-", "B">>}

HeaderValues == {<<"v">>, <<"w">>, <<"v", "w">>}

Headers ==
    UNION {[ks -> HeaderValues] :
              ks \in {x \in SUBSET HeaderNames : Cardinality(x) <= MaxHeaders}}

\* What the JSON documents of the output hold: any version with the usual
\* header, or the usual version with any header.
JSONDocs ==
    {[http_version |-> v, header |-> [k \in {<<"a">>} |-> <<"v">>]] : v \in Versions}
    \cup {[http_version |-> <<"1", ".", "1">>, header |-> h] : h \in Headers}

InitTransport ==
    /\ pc = "start"
    /\ baseURL \in {b \in SeedInputs : b.malformed}
    /\ collector = NoCollector
    /\ policy = "nil"
    /\ agenda = << >>
    /\ visited = {}
    /\ fetchLog = NoFetches
    /\ site = [u \in {} |-> 0]
    /\ meta = ZeroMetadata
    /\ toc = << >>
    /\ tocSet = {}
    /\ relinked = FALSE
    /\ chapters = NoChapters
    /\ seedErr = FALSE
    /\ book = ZeroBook
    /\ doc = NilEpub
    /\ asmErr = FALSE
    /\ epubCalls = {}
    /\ outFile = EmptyString
    /\ tpc = "call"
    /\ curlOK \in BOOLEAN
    /\ curlOut \in SeqUpTo(Bytes, MaxOut)
    /\ curlJSON \in IF curlOK /\ Decodes(curlOut) THEN JSONDocs ELSE {NoJSON}
    /\ curlCalls = 0
    /\ chunks = << >>
    /\ response = NoResponse("none")

RoundTrip ==
    /\ tpc = "call"
    /\ curlCalls' = curlCalls + 1
    /\ chunks' = IF curlOK THEN rsplit(curlOut, DELIMITER, 3) ELSE << >>
    /\ \E order \in RangeOrders(curlJSON.header) :
          response' = RoundTripResult(curlOK, curlOut, curlJSON, order)
    /\ tpc' = "returned"
    /\ UNCHANGED <<curlOK, curlOut, curlJSON, mainVars>>

SpecTransport == InitTransport /\ [][RoundTrip]_vars

-----------------------------------------------------------------------------
(* Specifications *)

Next ==
    \/ MainFatalConfig
    \/ MainScrape
    \/ Fetch
    \/ RoyalRoadHtml
    \/ RoyalRoadAnchor
    \/ RoyalRoadChapter
    \/ PhrackTissue
    \/ PhrackDetails
    \/ PhrackBody
    \/ ScribblehubBody
    \/ ScribblehubRest
    \/ PolicyReturn
    \/ AssembleEpub
    \/ WriteFile

Spec == Init /\ [][Next]_vars

\* A run on a royalroad seed.
InitRoyalRoad == Init /\ baseURL.host = "www.royalroad.com"

NextRoyalRoad ==
    \/ MainScrape
    \/ Fetch
    \/ RoyalRoadHtml
    \/ RoyalRoadAnchor
    \/ RoyalRoadChapter
    \/ PolicyReturn
    \/ AssembleEpub
    \/ WriteFile

SpecRoyalRoad == InitRoyalRoad /\ [][NextRoyalRoad]_vars

\* main is one goroutine and the collector synchronous: the run keeps going.
SpecRoyalRoadFair == SpecRoyalRoad /\ WF_vars(NextRoyalRoad)

\* scrapePhrack from its call to its return.
InitPhrack == Init /\ baseURL.host = "phrack.org"

NextPhrack ==
    \/ MainScrape
    \/ Fetch
    \/ PhrackTissue
    \/ PhrackDetails
    \/ PhrackBody
    \/ PolicyReturn

SpecPhrack == InitPhrack /\ [][NextPhrack]_vars

\* The collector is synchronous: a call stack that is not empty keeps running.
SpecPhrackFair == SpecPhrack /\ WF_vars(NextPhrack)

\* scrapeScribblehub from its call to its return.
InitScribblehub == Init /\ baseURL.host = "www.scribblehub.com"

NextScribblehub ==
    \/ MainScrape
    \/ Fetch
    \/ ScribblehubBody
    \/ ScribblehubRest
    \/ PolicyReturn

SpecScribblehub == InitScribblehub /\ [][NextScribblehub]_vars

SpecScribblehubFair == SpecScribblehub /\ WF_vars(NextScribblehub)


-----------------------------------------------------------------------------
(* Properties *)

TocURLs(t) == [i \in 1..Len(t) |-> t[i].URL]

\* the URLs fetched, and those among them fetched with success
Fetched == {r.url : r \in DOMAIN fetchLog}

FetchedOK == {r.url : r \in {x \in DOMAIN fetchLog : x.ok}}

\* no URL was fetched twice
FetchedOnce ==
    \A r, q \in DOMAIN fetchLog : fetchLog[r] = 1 /\ (r.url = q.url => r = q)

\* main has called assembleEpub and it has returned
Assembled == pc \in {"write", "exit0", "exit1"} /\ "NewEpub" \in epubCalls

\* every TOC entry of the book has its chapter
TocCovered(b) == \A i \in 1..Len(b.toc) : b.toc[i].URL \in DOMAIN b.chapters

\* anchors of the table-of-contents region of the royalroad index
TocRegion == site[SeedURL].anchors

\* every chapter the region lists was fetched by the chapter collector, with success
AllChaptersFetched ==
    \A i \in 1..Len(TocRegion) :
        [col |-> "chapterCollector", url |-> TocRegion[i], ok |-> TRUE] \in DOMAIN fetchLog

\* C1: scrapeRoyalRoad then assembleEpub: when the table-of-contents region
\* lists u1..un and every chapter fetch succeeded, the assembled sections are
\* the chapters of u1..un in that order.
C1_SectionsFollowTocRegion ==
    (policy = "scrapeRoyalRoad" /\ Assembled /\ ~asmErr /\ AllChaptersFetched)
        => doc.sections = [i \in 1..Len(TocRegion) |->
                              Section(RoyalRoadChapterOf(TocRegion[i]))]

\* C1 witness: a book of MaxChapters distinct chapters, all fetched, assembled
C1_Witness ==
    /\ policy = "scrapeRoyalRoad"
    /\ pc = "exit0"
    /\ AllChaptersFetched
    /\ Len(TocRegion) = MaxChapters
    /\ NoDup(TocRegion)

\* C2 (as claimed): assembleEpub on a book whose TOC names a URL that is no
\* key of the chapter mapping returns an error and emits no section with empty
\* title and content.
C2_MissingChapterIsAnError ==
    (Assembled /\ ~TocCovered(book))
        => /\ asmErr
           /\ \A i \in 1..Len(doc.sections) : doc.sections[i] # Section(ZeroChapter)

\* C3 (as claimed): when a policy returns without error, every URL of the
\* returned TOC is a key of the returned chapter mapping.
C3_ReturnedTocCovered == (pc = "assemble") => TocCovered(book)

\* C4: scrapePhrack: in every state each URL appears at most once in the TOC,
\* and the URLs of the TOC are exactly the dedup set.
C4_TocHasNoDuplicates ==
    (policy = "scrapePhrack")
        => /\ NoDup(TocURLs(toc))
           /\ Range(TocURLs(toc)) = tocSet

\* C4 witness: the walk returned after the .tissue callback met a content URL
\* a second time
C4_Witness ==
    /\ policy = "scrapePhrack"
    /\ pc = "assemble"
    /\ relinked
    /\ Len(toc) >= 2

\* C5: scrapePhrack: the walk returns, and no URL is fetched twice.
C5_WalkTerminates ==
    /\ <>(pc \in {"assemble", "exit1"})
    /\ []FetchedOnce

\* C5 witness: the walk returned from a graph with a link back to a page
\* already visited, every page having been fetched
C5_Witness ==
    /\ policy = "scrapePhrack"
    /\ pc = "assemble"
    /\ SeedURL \in tocSet
    /\ Cardinality(Fetched) = MaxPath + 1

\* The pages the next links lead through from u, at most k of them.
RECURSIVE ChainFrom(_, _)
ChainFrom(u, k) ==
    IF k = 0 \/ u \notin DOMAIN site THEN << >>
    ELSE <<u>> \o ChainFrom(site[u].next, k - 1)

Chain == ChainFrom(site[SeedURL].first, MaxPath + 1)

\* The site is an index whose first-chapter link starts a chain of chapter
\* pages that ends at a page with no next link, and every fetch succeeded.
IsChainSite ==
    /\ SeedURL \in DOMAIN site
    /\ site[SeedURL].first # EmptyURL
    /\ ~site[SeedURL].chapter
    /\ site[SeedURL].next = EmptyURL
    /\ Chain # << >>
    /\ NoDup(Chain)
    /\ SeedURL \notin Range(Chain)
    /\ \A i \in 1..Len(Chain) :
          /\ site[Chain[i]].chapter
          /\ site[Chain[i]].first = EmptyURL
    /\ site[Chain[Len(Chain)]].next = EmptyURL
    /\ \A r \in DOMAIN fetchLog : r.ok

\* C6: scrapeScribblehub over a chain p1 -> ... -> pn: the walk returns, with
\* the TOC [p1, ..., pn], exactly those n chapters, and each page fetched once.
C6_ChainWalk ==
    /\ <>(pc \in {"assemble", "exit1"})
    /\ []((policy = "scrapeScribblehub" /\ pc = "assemble" /\ IsChainSite)
            => /\ TocURLs(toc) = Chain
               /\ DOMAIN chapters = Range(Chain)
               /\ Cardinality(DOMAIN chapters) = Len(Chain)
               /\ Fetched = {SeedURL} \cup Range(Chain)
               /\ FetchedOnce)

\* C6 witness: the walk returned from a chain of MaxPath pages
C6_Witness ==
    /\ policy = "scrapeScribblehub"
    /\ pc = "assemble"
    /\ IsChainSite
    /\ Len(Chain) = MaxPath

HasDelimiter(s) == Index(s, DELIMITER) # 0

\* C7 (as claimed): for every body B and trailers T1, T2 without the
\* delimiter, rsplit(B + DELIM + T1 + DELIM + T2, DELIM, 3) is [B, T1, T2].
C7_RsplitRecoversBodyAndTrailers ==
    (tpc = "returned" /\ curlOK)
        => \A i, j \in 1..Len(curlOut) :
              LET B == SubSeq(curlOut, 1, i - 1)
                  T1 == SubSeq(curlOut, i + 3, j - 1)
                  T2 == SubSeq(curlOut, j + 3, Len(curlOut))
              IN (/\ i + 3 <= j
                  /\ curlOut = B \o DELIMITER \o T1 \o DELIMITER \o T2
                  /\ ~HasDelimiter(T1)
                  /\ ~HasDelimiter(T2))
                    => chunks = <<B, T1, T2>>

CoverCalls == {"AddImage", "AddCSS", "SetCover", "SetDescription"}

\* C8: assembleEpub on a book with an empty cover URL whose TOC entries all
\* have chapters succeeds, and adds no cover image, no stylesheet, no cover and
\* no description.
C8_NoCoverAssembles ==
    (Assembled /\ book.meta.CoverURL = EmptyString /\ TocCovered(book))
        => /\ ~asmErr
           /\ doc.made
           /\ epubCalls \cap CoverCalls = {}
           /\ doc.cover = EmptyString
           /\ doc.description = EmptyString

\* C8 witness: a book with chapters and no cover has been assembled
C8_Witness ==
    /\ Assembled
    /\ book.meta.CoverURL = EmptyString
    /\ TocCovered(book)
    /\ book.toc # << >>

\* C9: after the policy returned an error the assembler is never invoked, and
\* after either error the run is at exit status 1 with no output file derived
\* or written.
C9_FatalErrorsExit ==
    /\ (seedErr /\ pc # "scrape")
          => (pc = "exit1" /\ epubCalls = {} /\ ~doc.made /\ outFile = EmptyString)
    /\ asmErr => (pc = "exit1" /\ outFile = EmptyString)

\* C9 witness: assembleEpub returned an error and the run is over
C9_Witness == asmErr /\ pc = "exit1" /\ book.toc # << >>

\* C10: with a malformed seed or a host with no handler, main is at its start
\* or at exit status 1: no collector is constructed and nothing is fetched.
C10_ConfigErrorBeforeNetwork ==
    (baseURL.malformed \/ baseURL.host \notin DOMAIN handlers)
        => /\ pc \in {"start", "exit1"}
           /\ collector = NoCollector
           /\ agenda = << >>
           /\ visited = {}
           /\ fetchLog = NoFetches

\* C10 witness: a seed of a host with no handler has ended the run
C10_Witness ==
    /\ ~baseURL.malformed
    /\ baseURL.host \notin DOMAIN handlers
    /\ pc = "exit1"

\* the fetches that failed, other than the seed's
FailedFetches == {r \in DOMAIN fetchLog : ~r.ok /\ r.url # SeedURL}

\* the callbacks that run on the page of their task's URL
PageCallbacks == {"rrHtml", "rrChapter", "tissue", "details", "body", "shBody", "shRest"}

\* C11: after a fetch other than the seed's failed (the error observer logged
\* it), no page callback runs for its URL and no chapter is inserted for it;
\* the walk still performs every fetch it scheduled, and the policy returns
\* its book without error.
C11_FailedFetchIsSkipped ==
    (FailedFetches # {})
        => /\ \A r \in FailedFetches :
                /\ r.url \notin DOMAIN chapters
                /\ \A i \in 1..Len(agenda) :
                      agenda[i].op \in PageCallbacks => agenda[i].url # r.url
           /\ (pc \notin {"start", "scrape"})
                => /\ ~seedErr
                   /\ book = ScrapedBook(meta, toc, chapters)
                   /\ \A u \in visited : u.host = baseURL.host => u \in Fetched

\* C11 witness: scrapeRoyalRoad returned its book after the fetch of the first
\* listed chapter failed and the fetch of the second succeeded
C11_Witness ==
    /\ policy = "scrapeRoyalRoad"
    /\ pc = "assemble"
    /\ Len(TocRegion) = 2
    /\ [col |-> "chapterCollector", url |-> TocRegion[1], ok |-> FALSE] \in DOMAIN fetchLog
    /\ [col |-> "chapterCollector", url |-> TocRegion[2], ok |-> TRUE] \in DOMAIN fetchLog
    /\ TocRegion[2] \in DOMAIN chapters

\* requests in flight: the fetches started and not yet returned, of the index
\* collector and of its clone together
InFlight(a) == Cardinality({i \in 1..Len(a) : a[i].op = "fetch"})

InFlightOf(a, col) == Cardinality({i \in 1..Len(a) : a[i].op = "fetch" /\ a[i].col = col})

C13_OnlySeedHostFetched ==
    /\ \A r \in DOMAIN fetchLog : r.url.host = baseURL.host
    /\ \A i \in 1..Len(agenda) : agenda[i].op = "fetch" => agenda[i].url.host = baseURL.host
    /\ URL(OtherHost, 0) \notin Fetched

\* C13 witness: a walk that met a link to another host has returned, having
\* fetched pages of the seed host
C13_Witness ==
    /\ pc = "assemble"
    /\ URL(OtherHost, 0) \in visited
    /\ Cardinality(Fetched) >= 2

\* the chain walk has captured Metadata
MetaCaptured == meta # ZeroMetadata

\* the running callback is the chain walk's, on a page carrying a first-chapter link
OnFirstLinkPage ==
    /\ Running("shBody")
    /\ site[Head(agenda).url].first # EmptyURL

\* C14 (as claimed): scrapeScribblehub: once Metadata is captured, a page that
\* carries a first-chapter link neither overwrites Metadata nor starts a
\* fetch of its first-chapter link.
C14_MetadataCapturedOnce ==
    [][(policy = "scrapeScribblehub" /\ MetaCaptured /\ OnFirstLinkPage)
         => /\ meta' = meta
            /\ ~(/\ agenda' # << >>
                 /\ Head(agenda') = Task("fetch", "baseCollector",
                                         site[Head(agenda).url].first, 0))]_vars

\* C15 (as claimed): for every output of a subprocess that exited with
\* success, RoundTrip returns a response or an error: it reads no chunk that
\* rsplit did not return.
C15_RoundTripReadsReturnedChunks ==
    (tpc = "returned" /\ curlOK)
        => /\ response.kind \in {"response", "error"}
           /\ Len(chunks) >= 3

\* C16 (as claimed): scrapeRoyalRoad: no TOC append happens after the first
\* chapter insertion into the mapping.
C16_TocFinalBeforeChapters ==
    [][(policy = "scrapeRoyalRoad" /\ chapters # NoChapters) => toc' = toc]_vars

\* C16 (amended): scrapeRoyalRoad: the entry of a chapter is appended before
\* the fetch of that chapter starts: in every state the TOC is the anchors of
\* the region met so far, in document order, and every chapter fetched, being
\* fetched or inserted is already in the TOC.
C16_TocEntryPrecedesItsFetch ==
    (policy = "scrapeRoyalRoad")
        => /\ DOMAIN chapters \subseteq Range(TocURLs(toc))
           /\ \A r \in DOMAIN fetchLog :
                 r.col = "chapterCollector" => r.url \in Range(TocURLs(toc))
           /\ \A i \in 1..Len(agenda) :
                 agenda[i].col = "chapterCollector" => agenda[i].url \in Range(TocURLs(toc))
           /\ IF SeedURL \in DOMAIN site
              THEN /\ Len(toc) <= Len(TocRegion)
                   /\ TocURLs(toc) = SubSeq(TocRegion, 1, Len(toc))
              ELSE toc = << >>

\* C16 witness: the entry of the second chapter has been appended after the
\* first chapter was inserted, and its fetch is in flight
C16_Witness ==
    /\ policy = "scrapeRoyalRoad"
    /\ Len(toc) = 2
    /\ toc[1].URL \in DOMAIN chapters
    /\ Running("fetch")
    /\ Head(agenda).url = toc[2].URL

\* the chapters of the book that its TOC does not list
Unlisted(b) == DOMAIN b.chapters \ Range(TocURLs(b.toc))

\* C17: assembleEpub on a book whose TOC URLs all have chapters adds exactly
\* len(TOC) sections, the i-th being the content and title of the chapter
\* keyed by the i-th TOC URL (so an unlisted chapter gets none), and leaves the
\* book's TOC and mapping as the policy returned them.
C17_SectionsAreTheToc ==
    (Assembled /\ ~asmErr /\ TocCovered(book))
        => /\ Len(doc.sections) = Len(book.toc)
           /\ \A i \in 1..Len(book.toc) :
                 /\ doc.sections[i].body = book.chapters[book.toc[i].URL].Content
                 /\ doc.sections[i].title = book.chapters[book.toc[i].URL].Title
           /\ \A u \in Unlisted(book) :
                 \A i \in 1..Len(doc.sections) : doc.sections[i].title # book.chapters[u].Title
           /\ book.toc = toc
           /\ book.chapters = chapters

\* C17 witness: a phrack book with two listed chapters and an unlisted one
\* (the index page) has been assembled
C17_Witness ==
    /\ policy = "scrapePhrack"
    /\ Assembled
    /\ ~asmErr
    /\ TocCovered(book)
    /\ Len(book.toc) = 2
    /\ Unlisted(book) # {}

\* C19: scrapeScribblehub: the TOC append and the chapter insert of a page
\* happen in one step of its callback, with no fetch and no other mutation of
\* the TOC or the mapping between them, so at every fetch point (and in every
\* state between callbacks' steps) the TOC URLs are keys of the mapping.
C19_AppendAndInsertTogether ==
    /\ [](policy = "scrapeScribblehub" => Range(TocURLs(toc)) \subseteq DOMAIN chapters)
    /\ [][(policy = "scrapeScribblehub" /\ toc' # toc)
            => /\ Len(toc') = Len(toc) + 1
               /\ SubSeq(toc', 1, Len(toc)) = toc
               /\ toc'[Len(toc')].URL \in DOMAIN chapters'
               /\ \A u \in DOMAIN chapters' : u # toc'[Len(toc')].URL
                     => (u \in DOMAIN chapters /\ chapters'[u] = chapters[u])
               /\ fetchLog' = fetchLog]_vars

\* C19 witness: the fetch of a next link is about to run with two chapters
\* already appended and inserted
C19_Witness ==
    /\ policy = "scrapeScribblehub"
    /\ Running("fetch")
    /\ Len(toc) = 2
    /\ Cardinality(DOMAIN chapters) = 2

\* vs occurs in r, in order
IsSubsequence(vs, r) ==
    \E f \in [1..Len(vs) -> 1..Len(r)] :
        /\ \A i \in 1..Len(vs) : r[f[i]] = vs[i]
        /\ \A i, j \in 1..Len(vs) : i < j => f[i] < f[j]

\* the field names of h that differ from k at most in case
SameField(h, k) == {x \in DOMAIN h : CanonicalMIMEHeaderKey(x) = CanonicalMIMEHeaderKey(k)}

RECURSIVE TotalValues(_, _)
TotalValues(h, ks) ==
    IF ks = {} THEN 0
    ELSE LET k == CHOOSE x \in ks : TRUE IN Len(h[k]) + TotalValues(h, ks \ {k})

\* C18 (as claimed): the header set of the response holds canonical field
\* names only; the values of every decoded field name are, in order, under
\* its canonical name; and names that differ only in case have all their
\* values under the one canonical name, whatever the order of the range.
C18_HeaderCanonicalized ==
    (tpc = "returned" /\ response.kind = "response")
        => /\ \A k \in DOMAIN response.header : k = CanonicalMIMEHeaderKey(k)
           /\ \A k \in DOMAIN curlJSON.header :
                 /\ CanonicalMIMEHeaderKey(k) \in DOMAIN response.header
                 /\ IsSubsequence(curlJSON.header[k],
                                  response.header[CanonicalMIMEHeaderKey(k)])
                 /\ Len(response.header[CanonicalMIMEHeaderKey(k)])
                       = TotalValues(curlJSON.header, SameField(curlJSON.header, k))

\* a number in decimal notation, of any size, with or without a sign
IsDecimal(s) ==
    LET ds == IF s # << >> /\ s[1] \in {"+", "-"} THEN Tail(s) ELSE s
    IN ds # << >> /\ \A i \in 1..Len(ds) : ds[i] \in {"0", "1", "2", BigDigits}

\* "a.b" or "a" with a and b decimal integers
NumericVersion(v) ==
    \/ IsDecimal(v)
    \/ \E i \in 1..Len(v) :
          /\ v[i] = "."
          /\ IsDecimal(SubSeq(v, 1, i - 1))
          /\ IsDecimal(SubSeq(v, i + 1, Len(v)))

\* a chunk that is no JSON document
NotJSON(chunk) ==
    \/ Cardinality({i \in 1..Len(chunk) : chunk[i] = "j"}) # 1
    \/ \E i \in 1..Len(chunk) : chunk[i] = "x"

\* C20: when the subprocess failed, or one of the two trailers does not
\* decode, or the HTTP version has a component that is no number, RoundTrip
\* returns an error and no response, having run the subprocess exactly once.
C20_TransportFailureIsAnError ==
    (tpc = "returned")
        => /\ curlCalls = 1
           /\ (\/ ~curlOK
               \/ Len(chunks) >= 3 /\ (NotJSON(chunks[2]) \/ NotJSON(chunks[3]))
               \/ Len(chunks) >= 3 /\ ~NumericVersion(curlJSON.http_version))
                 => response = NoResponse("error")

\* C20 witness: RoundTrip has returned an error for an output whose trailers
\* decode and whose version has a component that is no number
C20_Witness ==
    /\ tpc = "returned"
    /\ curlOK
    /\ Decodes(curlOut)
    /\ curlJSON.http_version = <<"1", ".", "x">>
    /\ response.kind = "error"

\* a decimal number that an int holds
IsInt(s) == IsDecimal(s) /\ \A i \in 1..Len(s) : s[i] # BigDigits

\* the number a string of digits denotes
RECURSIVE DigitsValue(_)
DigitsValue(ds) ==
    IF ds = << >> THEN 0
    ELSE 10 * DigitsValue(SubSeq(ds, 1, Len(ds) - 1))
         + (CASE ds[Len(ds)] = "0" -> 0 [] ds[Len(ds)] = "1" -> 1 [] ds[Len(ds)] = "2" -> 2)

IntValue(s) ==
    IF s[1] = "-" THEN 0 - DigitsValue(Tail(s))
    ELSE IF s[1] = "+" THEN DigitsValue(Tail(s))
    ELSE DigitsValue(s)

\* RoundTrip has returned for an output whose trailers decode: its result is
\* that of parseHTTPVersion on the reported version
VersionParsed == tpc = "returned" /\ curlOK /\ Decodes(curlOut)

Parsed(major, minor) ==
    /\ response.kind = "response"
    /\ response.major = major
    /\ response.minor = minor

\* C21 (as claimed): parseHTTPVersion returns (a, b) for "a.b" with a and b
\* decimal integers, (a, 0) for a decimal integer a without a dot, and an
\* error for every other string.
C21_ParseHTTPVersion ==
    VersionParsed =>
        LET v == curlJSON.http_version
            dots == {i \in 1..Len(v) : v[i] = "."}
            pairs == {i \in dots : /\ IsDecimal(SubSeq(v, 1, i - 1))
                                   /\ IsDecimal(SubSeq(v, i + 1, Len(v)))}
        IN /\ \A i \in pairs :
                /\ response.kind = "response"
                /\ Parsed(IntValue(SubSeq(v, 1, i - 1)), IntValue(SubSeq(v, i + 1, Len(v))))
           /\ (dots = {} /\ IsDecimal(v))
                => (response.kind = "response" /\ Parsed(IntValue(v), 0))
           /\ (pairs = {} /\ ~(dots = {} /\ IsDecimal(v)))
                => response = NoResponse("error")

\* C21 (amended): the same with "decimal integer" read as strconv.Atoi reads
\* it: an optional sign and one or more digits, of a value an int holds; a
\* component of digits beyond that range is an error too.
C21_ParseHTTPVersionWithinInt ==
    VersionParsed =>
        LET v == curlJSON.http_version
            dots == {i \in 1..Len(v) : v[i] = "."}
            pairs == {i \in dots : /\ IsInt(SubSeq(v, 1, i - 1))
                                   /\ IsInt(SubSeq(v, i + 1, Len(v)))}
        IN /\ \A i \in pairs :
                Parsed(IntValue(SubSeq(v, 1, i - 1)), IntValue(SubSeq(v, i + 1, Len(v))))
           /\ (dots = {} /\ IsInt(v)) => Parsed(IntValue(v), 0)
           /\ (pairs = {} /\ ~(dots = {} /\ IsInt(v)))
                => response = NoResponse("error")

\* C21 witness: RoundTrip has returned a response of version (1, 2) for "1.2"
C21_Witness ==
    /\ VersionParsed
    /\ curlJSON.http_version = <<"1", ".", "2">>
    /\ Parsed(1, 2)

\* the pages the next links lead through from the first chapter, followed
\* one step further than there are pages
NextWalk == ChainFrom(site[SeedURL].first, MaxPath + 2)

\* The next links of the site served so far lead back to a page already on
\* their path: p1 -> ... -> pk -> pi.
IsCyclicSite ==
    /\ policy = "scrapeScribblehub"
    /\ SeedURL \in DOMAIN site
    /\ site[SeedURL].first # EmptyURL
    /\ ~NoDup(NextWalk)

\* C22 (as claimed): scrapeScribblehub over a site whose next links form a
\* cycle never returns.
C22_CyclicChainNeverReturns == IsCyclicSite => pc = "scrape"

\* C22 (amended): scrapeScribblehub over a site whose next links form a cycle
\* returns: the collector's visited store refuses the visit that closes the
\* cycle, so every page is fetched once and appears once in the TOC.
C22_CyclicChainReturns ==
    /\ IsCyclicSite ~> (pc = "assemble")
    /\ [](IsCyclicSite
            => /\ FetchedOnce
               /\ NoDup(TocURLs(toc))
               /\ \A i \in 1..Len(agenda) :
                     agenda[i].op = "fetch" => agenda[i].url \notin Fetched)

\* C22 witness: the walk has returned from the cycle p1 -> p2 -> p1 of two
\* chapter pages, with the TOC [p1, p2]
C22_Witness ==
    /\ IsCyclicSite
    /\ pc = "assemble"
    /\ Len(toc) = 2
    /\ site[toc[1].URL].next = toc[2].URL
    /\ site[toc[2].URL].next = toc[1].URL
    /\ SeedURL \notin Range(TocURLs(toc))


====
